---- MODULE Spec2Model ----
(***************************************************************************)
(* Model of realtime/warsawgtfs_realtime.go: the command-line entry point  *)
(* that selects one of the alerts / brigades / positions modes, loads the  *)
(* static GTFS when the mode needs it and launches the mode, once or in    *)
(* the alerts loop.                                                        *)
(*                                                                         *)
(* Strings are sequences of tokens: "/" and "." are tokens of their own,   *)
(* a URL scheme ("https://") is one token, every other token is a run of   *)
(* ordinary characters.  The empty string is <<>>.                         *)
(***************************************************************************)
EXTENDS Integers, Sequences, FiniteSets, TLC

\* Largest duration (in ticks) given to -loop and -checkdata.
MaxDur == 2
\* The clock of the loop stops advancing here.
MaxTime == 4
\* The static GTFS changes at most this many times.
MaxVersion == 2

----------------------------------------------------------------------------
(* Strings and paths                                                       *)

EmptyString == <<>>

\* strings.HasPrefix(s, scheme): the scheme is the first token.
HasPrefix(s, prefix) == Len(s) >= 1 /\ s[1] = prefix

\* The test of lines 118 and 176.
IsRemote(location) ==
    HasPrefix(location, "http://") \/ HasPrefix(location, "https://")

\* The slash-separated elements of a path.
RECURSIVE SplitSlash(_)
SplitSlash(s) ==
    IF s = <<>> THEN << <<>> >>
    ELSE LET r == SplitSlash(Tail(s)) IN
         IF Head(s) = "/" THEN << <<>> >> \o r
         ELSE << <<Head(s)>> \o Head(r) >> \o Tail(r)

RECURSIVE JoinSlash(_)
JoinSlash(els) ==
    IF els = <<>> THEN <<>>
    ELSE IF Len(els) = 1 THEN els[1]
    ELSE els[1] \o <<"/">> \o JoinSlash(Tail(els))

\* path.Clean's walk over the elements: empty and "." elements are dropped,
\* ".." removes the element before it.
RECURSIVE CleanElems(_, _, _)
CleanElems(els, out, rooted) ==
    IF els = <<>> THEN out
    ELSE LET e == Head(els)
             rest == Tail(els)
         IN IF e = <<>> \/ e = <<".">> THEN CleanElems(rest, out, rooted)
            ELSE IF e = <<".", ".">>
                 THEN IF out # <<>> /\ out[Len(out)] # <<".", ".">>
                      THEN CleanElems(rest, SubSeq(out, 1, Len(out) - 1), rooted)
                      ELSE IF rooted THEN CleanElems(rest, out, rooted)
                      ELSE CleanElems(rest, Append(out, e), rooted)
                 ELSE CleanElems(rest, Append(out, e), rooted)

PathClean(p) ==
    IF p = <<>> THEN <<".">>
    ELSE LET rooted == p[1] = "/"
             body == JoinSlash(CleanElems(SplitSlash(p), <<>>, rooted))
         IN IF rooted THEN <<"/">> \o body
            ELSE IF body = <<>> THEN <<".">> ELSE body

\* path.Join(dir, name): empty elements are ignored, the result is cleaned.
PathJoin(dir, name) ==
    IF dir = <<>> /\ name = <<>> THEN <<>>
    ELSE IF dir = <<>> THEN PathClean(name)
    ELSE IF name = <<>> THEN PathClean(dir)
    ELSE PathClean(dir \o <<"/">> \o name)

\* The extension of a path, as path.Ext gives it: the suffix from the final
\* dot of the final element.  Used to state properties of the built paths.
RECURSIVE ExtFrom(_, _)
ExtFrom(p, i) ==
    IF i < 1 THEN <<>>
    ELSE IF p[i] = "/" THEN <<>>
    ELSE IF p[i] = "." THEN SubSeq(p, i, Len(p))
    ELSE ExtFrom(p, i - 1)

PathExt(p) == ExtFrom(p, Len(p))

----------------------------------------------------------------------------
(* Flags                                                                   *)

Apikeys == { EmptyString, <<"key">> }

Locations == { <<"https://", "mkuran", ".", "pl", "/", "warsaw", ".", "zip">>,
               <<"http://", "localhost", "/", "warsaw", ".", "zip">>,
               <<"warsaw", ".", "zip">> }

BrigadesLocations == { <<"https://", "mkuran", ".", "pl", "/", "brigades", ".", "json">> }

Targets == { <<"data_rt">>, EmptyString, <<"out", ".", "d", "/">> }

Durations == -1 .. MaxDur

\* The values flag.Parse can leave in the flag variables of lines 20-88.
FlagValues ==
    [ a : BOOLEAN, b : BOOLEAN, p : BOOLEAN,
      k : Apikeys, gtfsFile : Locations, brigadesFile : BrigadesLocations,
      target : Targets, json : BOOLEAN, readable : BOOLEAN, strict : BOOLEAN,
      loop : Durations, checkdata : Durations ]

----------------------------------------------------------------------------
(* Errors                                                                  *)

Nil == "nil"
ErrModes == "exactly one of the -a, -b or -p flags has to be provided"
ErrNoRoutes == "no file routes.txt in the GTFS"
ErrLoopMode == "loop mode is only available for alerts"
ErrNoKey == "Key for api.um.warszawa.pl needs to be provided"
\* Errors returned by the packages gtfs, alerts, brigades and positions.
ErrRetrieve == "gtfs: retrieval failed"
ErrLoad == "gtfs: load failed"
ErrGen == "generation failed"
ErrFetch == "resource: fetch failed"
ErrProbe == "resource: probe failed"

----------------------------------------------------------------------------
(* Pure parts of the program                                               *)

Bit(x) == IF x THEN 1 ELSE 0

\* A mode check that only rejects the absence of a mode.
checkModesAtLeastOne(f) ==
    LET modeCount == (Bit(f.a) + Bit(f.b) + Bit(f.p)) % 256
    IN IF modeCount < 1 THEN ErrModes ELSE Nil

\* checkModes: modeCount is a uint8.
checkModes(f) ==
    LET modeCount == (Bit(f.a) + Bit(f.b) + Bit(f.p)) % 256
    IN IF modeCount # 1 THEN ErrModes ELSE Nil

\* Loop mode that also takes the zero duration.
LoopModeFromZero(f) == f.loop >= 0

\* Loop mode that starts one tick late.
LoopModeAboveOne(f) == f.loop > 1

\* loopMode := *flagLoop > 0
LoopMode(f) == f.loop > 0

\* A load guard that forgets the loop mode.
LoadNeededIgnoringLoop(f) == ~f.p

\* if !*flagPostions && !loopMode
LoadNeeded(f) == ~f.p /\ ~LoopMode(f)

Call(fn, ok) == [fn |-> fn, ok |-> ok]

\* loadGtfs without the early return on a failed retrieval.
loadGtfsNoEarlyReturn(f, retrieveOK, hasRoutes, parseOK) ==
    LET via == IF IsRemote(f.gtfsFile) THEN "gtfs.NewGtfsFromURL"
               ELSE "gtfs.NewGtfsFromFile"
    IN [ calls |-> << Call(via, retrieveOK), Call("LoadAll", parseOK) >>,
         gtfs |-> IF retrieveOK THEN "set" ELSE "nil",
         err |-> IF parseOK THEN Nil ELSE ErrLoad ]

\* loadGtfs which loads everything in every mode.
loadGtfsAlwaysAll(f, retrieveOK, hasRoutes, parseOK) ==
    LET via == IF IsRemote(f.gtfsFile) THEN "gtfs.NewGtfsFromURL"
               ELSE "gtfs.NewGtfsFromFile"
    IN IF ~retrieveOK
       THEN [ calls |-> << Call(via, FALSE) >>, gtfs |-> "nil", err |-> ErrRetrieve ]
       ELSE [ calls |-> << Call(via, TRUE), Call("LoadAll", parseOK) >>,
              gtfs |-> "set",
              err |-> IF parseOK THEN Nil ELSE ErrLoad ]

\* loadGtfs.  retrieveOK: the retrieval succeeds; hasRoutes: the archive
\* holds routes.txt; parseOK: LoadRoutes / LoadAll succeeds.
loadGtfs(f, retrieveOK, hasRoutes, parseOK) ==
    LET via == IF IsRemote(f.gtfsFile) THEN "gtfs.NewGtfsFromURL"
               ELSE "gtfs.NewGtfsFromFile"
    IN IF ~retrieveOK
       THEN [ calls |-> << Call(via, FALSE) >>, gtfs |-> "nil", err |-> ErrRetrieve ]
       ELSE IF f.a
            THEN IF hasRoutes
                 THEN [ calls |-> << Call(via, TRUE),
                                     Call("GetZipFileByName", TRUE),
                                     Call("LoadRoutes", parseOK) >>,
                        gtfs |-> "set",
                        err |-> IF parseOK THEN Nil ELSE ErrLoad ]
                 ELSE [ calls |-> << Call(via, TRUE),
                                     Call("GetZipFileByName", FALSE) >>,
                        gtfs |-> "set",
                        err |-> ErrNoRoutes ]
            ELSE [ calls |-> << Call(via, TRUE), Call("LoadAll", parseOK) >>,
                   gtfs |-> "set",
                   err |-> IF parseOK THEN Nil ELSE ErrLoad ]

NoOpts == [ none |-> TRUE ]

\* Alerts options whose target extension follows -readable.
AlertsOptionsExtByFormat(f) ==
    [ GtfsRtTarget |-> PathJoin(f.target,
                         IF f.readable THEN <<"alerts", ".", "pbtxt">>
                         ELSE <<"alerts", ".", "pb">>),
      HumanReadable |-> f.readable,
      ThrowLinkErrors |-> f.strict,
      JSONTarget |-> IF f.json THEN PathJoin(f.target, <<"alerts", ".", "json">>)
                     ELSE EmptyString ]

\* alerts.Options of mainAlerts and of loopAlerts (the same statements).
AlertsOptions(f) ==
    [ GtfsRtTarget |-> PathJoin(f.target, <<"alerts", ".", "pb">>),
      HumanReadable |-> f.readable,
      ThrowLinkErrors |-> f.strict,
      JSONTarget |-> IF f.json THEN PathJoin(f.target, <<"alerts", ".", "json">>)
                     ELSE EmptyString ]

BrigadesOptions(f) ==
    [ JSONTarget |-> PathJoin(f.target, <<"brigades", ".", "json">>),
      Apikey |-> f.k,
      ThrowAPIErrors |-> f.strict ]

PositionsOptions(f) ==
    [ GtfsRtTarget |-> PathJoin(f.target, <<"positions", ".", "pb">>),
      HumanReadable |-> f.readable,
      Apikey |-> f.k,
      Brigades |-> f.brigadesFile,
      JSONTarget |-> IF f.json THEN PathJoin(f.target, <<"positions", ".", "json">>)
                     ELSE EmptyString ]

\* mainAlerts.  genOK: alerts.Make succeeds.
mainAlerts(f, genOK) ==
    [ opts |-> AlertsOptions(f),
      calls |-> << Call("alerts.Make", genOK) >>,
      err |-> IF genOK THEN Nil ELSE ErrGen ]

\* mainBrigades without the apikey check.
mainBrigadesNoKeyCheck(f, genOK) ==
    [ opts |-> BrigadesOptions(f),
      calls |-> << Call("brigades.Main", genOK) >>,
      err |-> IF genOK THEN Nil ELSE ErrGen ]

\* mainBrigades.  genOK: brigades.Main succeeds.
mainBrigades(f, genOK) ==
    IF f.k = EmptyString
    THEN [ opts |-> NoOpts, calls |-> <<>>, err |-> ErrNoKey ]
    ELSE [ opts |-> BrigadesOptions(f),
           calls |-> << Call("brigades.Main", genOK) >>,
           err |-> IF genOK THEN Nil ELSE ErrGen ]

\* mainPositions.  genOK: positions.Main succeeds.
mainPositions(f, genOK) ==
    IF f.k = EmptyString
    THEN [ opts |-> NoOpts, calls |-> <<>>, err |-> ErrNoKey ]
    ELSE [ opts |-> PositionsOptions(f),
           calls |-> << Call("positions.Main", genOK) >>,
           err |-> IF genOK THEN Nil ELSE ErrGen ]

\* The case the switch of main selects.
SwitchCase(f) ==
    IF f.a /\ LoopMode(f) THEN "loopAlerts"
    ELSE IF f.a THEN "mainAlerts"
    ELSE IF LoopMode(f) THEN "loopError"
    ELSE IF f.b THEN "mainBrigades"
    ELSE IF f.p THEN "mainPositions"
    ELSE "none"

----------------------------------------------------------------------------
(* The resource and the loop of the packages util and alerts               *)

\* A resource whose recheck period is the loop cadence.
NewResourcePeriodFromLoop(f) ==
    [ kind |-> IF IsRemote(f.gtfsFile) THEN "ResourceHTTP" ELSE "ResourceLocal",
      location |-> f.gtfsFile,
      Peroid |-> f.loop ]

\* The util.Resource loopAlerts creates.
NewResource(f) ==
    [ kind |-> IF IsRemote(f.gtfsFile) THEN "ResourceHTTP" ELSE "ResourceLocal",
      location |-> f.gtfsFile,
      Peroid |-> f.checkdata ]

\* The resource before its first check: no check time, no version marker.
FreshResourceState == [ checked |-> FALSE, lastCheck |-> 0, marker |-> 0 ]

\* checkAndMaybeFetch.  st: check time and version marker; content: the
\* version of the artifact; probeOK / fetchOK: the probe / the full fetch
\* succeeds; strict: the caller's strict flag.
checkAndMaybeFetch(res, st, time, content, probeOK, fetchOK, strict) ==
    IF st.checked /\ time - st.lastCheck < res.Peroid
    THEN [ state |-> st, result |-> "unchanged", probes |-> 0, fetches |-> 0,
           err |-> Nil ]
    ELSE IF ~probeOK
         THEN IF strict
              THEN [ state |-> st, result |-> "error", probes |-> 1,
                     fetches |-> 0, err |-> ErrProbe ]
              ELSE [ state |-> [st EXCEPT !.checked = TRUE, !.lastCheck = time],
                     result |-> "unchanged", probes |-> 1, fetches |-> 0,
                     err |-> Nil ]
         ELSE IF content # st.marker
              THEN IF fetchOK
                   THEN [ state |-> [ checked |-> TRUE, lastCheck |-> time,
                                      marker |-> content ],
                          result |-> "changed", probes |-> 1, fetches |-> 1,
                          err |-> Nil ]
                   ELSE [ state |-> st, result |-> "error", probes |-> 1,
                          fetches |-> 1, err |-> ErrFetch ]
              ELSE [ state |-> [st EXCEPT !.checked = TRUE, !.lastCheck = time],
                     result |-> "unchanged", probes |-> 1, fetches |-> 0,
                     err |-> Nil ]

----------------------------------------------------------------------------
(* State                                                                   *)

VARIABLES
    flags,        \* the parsed command-line flags
    pc,           \* position in main
    err,          \* main's err
    exit,         \* "running", "ok" (main returned) or "fatal" (log.Fatalln)
    gtfsFile,     \* the global gtfsFile: "nil" or "set"
    calls,        \* the calls main and its helpers made to other packages
    builder,      \* the function that built the options, or "none"
    opts,         \* the options handed to the generation package
    gtfsResource, \* the resource handed to alerts.Loop
    resState,     \* the resource's check time and version marker
    loopState,    \* the state of the loop driver
    now,          \* the clock
    content,      \* the version of the static GTFS at its location
    checks,       \* freshness checks made
    probeCount,   \* probes made
    fetchCount,   \* full fetches made
    lastResult,   \* result of the last freshness check
    nUnchanged,   \* checks that returned "unchanged"
    nChanged,     \* checks that returned "changed"
    regens        \* generations made by the loop

mainVars == << flags, pc, err, exit, gtfsFile, calls, builder, opts, gtfsResource >>
loopVars == << resState, loopState, now, content, checks, probeCount,
               fetchCount, lastResult, nUnchanged, nChanged, regens >>
vars == << flags, pc, err, exit, gtfsFile, calls, builder, opts, gtfsResource,
           resState, loopState, now, content, checks, probeCount, fetchCount,
           lastResult, nUnchanged, nChanged, regens >>

NoResource == [ kind |-> "none" ]

\* The process after flag.Parse, the flags taken from F.
InitWith(F) ==
    /\ flags \in F
    /\ pc = "checkModes"
    /\ err = Nil
    /\ exit = "running"
    /\ gtfsFile = "nil"
    /\ calls = <<>>
    /\ builder = "none"
    /\ opts = NoOpts
    /\ gtfsResource = NoResource
    /\ resState = FreshResourceState
    /\ loopState = "Idle"
    /\ now = 0
    /\ content = 1
    /\ checks = 0
    /\ probeCount = 0
    /\ fetchCount = 0
    /\ lastResult = "none"
    /\ nUnchanged = 0
    /\ nChanged = 0
    /\ regens = 0

Init == InitWith(FlagValues)

\* if err != nil { log.Fatalln(err.Error()) } at the end of main.
Finish(e) ==
    /\ pc' = "exited"
    /\ err' = e
    /\ exit' = IF e # Nil THEN "fatal" ELSE "ok"

----------------------------------------------------------------------------
(* main                                                                    *)

\* Lines 236-241.
MainCheckModes ==
    /\ pc = "checkModes"
    /\ LET e == checkModes(flags)
       IN IF e # Nil
          THEN Finish(e)
          ELSE /\ pc' = "loadGtfs"
               /\ err' = e
               /\ exit' = exit
    /\ UNCHANGED << flags, gtfsFile, calls, builder, opts, gtfsResource >>
    /\ UNCHANGED loopVars

\* Lines 243-249.
MainLoadGtfs ==
    /\ pc = "loadGtfs"
    /\ IF LoadNeeded(flags)
       THEN \E retrieveOK \in BOOLEAN, hasRoutes \in BOOLEAN, parseOK \in BOOLEAN :
               LET r == loadGtfs(flags, retrieveOK, hasRoutes, parseOK)
               IN /\ calls' = calls \o r.calls
                  /\ gtfsFile' = r.gtfs
                  /\ IF r.err # Nil
                     THEN Finish(r.err)
                     ELSE /\ pc' = "launch"
                          /\ err' = r.err
                          /\ exit' = exit
       ELSE /\ pc' = "launch"
            /\ UNCHANGED << err, exit, calls, gtfsFile >>
    /\ UNCHANGED << flags, builder, opts, gtfsResource >>
    /\ UNCHANGED loopVars

\* case *flagAlerts && loopMode: loopAlerts builds the options and the
\* resource and enters alerts.Loop.
LaunchLoopAlerts ==
    /\ pc = "launch"
    /\ SwitchCase(flags) = "loopAlerts"
    /\ builder' = "loopAlerts"
    /\ opts' = AlertsOptions(flags)
    /\ gtfsResource' = NewResource(flags)
    /\ calls' = Append(calls, Call("alerts.Loop", TRUE))
    /\ pc' = "loop"
    /\ loopState' = "Checking"
    /\ UNCHANGED << flags, err, exit, gtfsFile >>
    /\ UNCHANGED << resState, now, content, checks, probeCount, fetchCount,
                    lastResult, nUnchanged, nChanged, regens >>

\* case *flagAlerts: mainAlerts.
LaunchMainAlerts ==
    /\ pc = "launch"
    /\ SwitchCase(flags) = "mainAlerts"
    /\ \E genOK \in BOOLEAN :
          LET r == mainAlerts(flags, genOK)
          IN /\ builder' = "mainAlerts"
             /\ opts' = r.opts
             /\ calls' = calls \o r.calls
             /\ Finish(r.err)
    /\ UNCHANGED << flags, gtfsFile, gtfsResource >>
    /\ UNCHANGED loopVars

\* case loopMode: the loop is only available for alerts.
LaunchLoopError ==
    /\ pc = "launch"
    /\ SwitchCase(flags) = "loopError"
    /\ Finish(ErrLoopMode)
    /\ UNCHANGED << flags, gtfsFile, calls, builder, opts, gtfsResource >>
    /\ UNCHANGED loopVars

\* case *flagBrigades: mainBrigades.
LaunchMainBrigades ==
    /\ pc = "launch"
    /\ SwitchCase(flags) = "mainBrigades"
    /\ \E genOK \in BOOLEAN :
          LET r == mainBrigades(flags, genOK)
          IN /\ builder' = "mainBrigades"
             /\ opts' = r.opts
             /\ calls' = calls \o r.calls
             /\ Finish(r.err)
    /\ UNCHANGED << flags, gtfsFile, gtfsResource >>
    /\ UNCHANGED loopVars

\* case *flagPostions: mainPositions.
LaunchMainPositions ==
    /\ pc = "launch"
    /\ SwitchCase(flags) = "mainPositions"
    /\ \E genOK \in BOOLEAN :
          LET r == mainPositions(flags, genOK)
          IN /\ builder' = "mainPositions"
             /\ opts' = r.opts
             /\ calls' = calls \o r.calls
             /\ Finish(r.err)
    /\ UNCHANGED << flags, gtfsFile, gtfsResource >>
    /\ UNCHANGED loopVars

----------------------------------------------------------------------------
(* alerts.Loop                                                             *)

\* Checking: one freshness check of the resource.
LoopCheck ==
    /\ pc = "loop"
    /\ loopState = "Checking"
    /\ \E probeOK \in BOOLEAN, fetchOK \in BOOLEAN :
          LET r == checkAndMaybeFetch(gtfsResource, resState, now, content,
                                      probeOK, fetchOK, opts.ThrowLinkErrors)
          IN /\ resState' = r.state
             /\ checks' = checks + 1
             /\ probeCount' = probeCount + r.probes
             /\ fetchCount' = fetchCount + r.fetches
             /\ lastResult' = r.result
             /\ nUnchanged' = nUnchanged + Bit(r.result = "unchanged")
             /\ nChanged' = nChanged + Bit(r.result = "changed")
             /\ IF r.result = "error"
                THEN /\ loopState' = "Terminated"
                     /\ Finish(r.err)
                ELSE /\ loopState' = IF r.result = "changed" THEN "Regenerating"
                                     ELSE "Sleeping"
                     /\ UNCHANGED << pc, err, exit >>
    /\ UNCHANGED << flags, gtfsFile, calls, builder, opts, gtfsResource,
                    now, content, regens >>

\* Regenerating: reload the static dataset, then generate.  reloadOK: the
\* reload succeeds; genOK: the generation succeeds; carryOn: the policy
\* chosen for a failed generation when the strict flag is not set.
LoopRegenerate ==
    /\ pc = "loop"
    /\ loopState = "Regenerating"
    /\ \E reloadOK \in BOOLEAN, genOK \in BOOLEAN, carryOn \in BOOLEAN :
          IF ~reloadOK
          THEN /\ loopState' = "Terminated"
               /\ Finish(ErrLoad)
               /\ UNCHANGED << gtfsFile, regens >>
          ELSE /\ gtfsFile' = "set"
               /\ regens' = regens + 1
               /\ IF genOK \/ (~opts.ThrowLinkErrors /\ carryOn)
                  THEN /\ loopState' = "Sleeping"
                       /\ UNCHANGED << pc, err, exit >>
                  ELSE /\ loopState' = "Terminated"
                       /\ Finish(ErrGen)
    /\ UNCHANGED << flags, calls, builder, opts, gtfsResource, resState, now,
                    content, checks, probeCount, fetchCount, lastResult,
                    nUnchanged, nChanged >>

\* Sleeping: wait for the loop cadence, then check again.
LoopSleep ==
    /\ pc = "loop"
    /\ loopState = "Sleeping"
    /\ now + flags.loop <= MaxTime
    /\ now' = now + flags.loop
    /\ loopState' = "Checking"
    /\ UNCHANGED mainVars
    /\ UNCHANGED << resState, content, checks, probeCount, fetchCount,
                    lastResult, nUnchanged, nChanged, regens >>

\* The static GTFS at its location is replaced by a new version.
ContentChange ==
    /\ pc = "loop"
    /\ content <= MaxVersion
    /\ content' = content + 1
    /\ UNCHANGED mainVars
    /\ UNCHANGED << resState, loopState, now, checks, probeCount, fetchCount,
                    lastResult, nUnchanged, nChanged, regens >>

Next ==
    \/ MainCheckModes
    \/ MainLoadGtfs
    \/ LaunchLoopAlerts
    \/ LaunchMainAlerts
    \/ LaunchLoopError
    \/ LaunchMainBrigades
    \/ LaunchMainPositions
    \/ LoopCheck
    \/ LoopRegenerate
    \/ LoopSleep
    \/ ContentChange

Spec == Init /\ [][Next]_vars

\* The flags that decide the control flow of main, every other flag at the
\* default of its declaration.
ControlFlagValues ==
    { f \in FlagValues :
        /\ f.gtfsFile = <<"https://", "mkuran", ".", "pl", "/", "warsaw", ".", "zip">>
        /\ f.target = <<"data_rt">>
        /\ ~f.json
        /\ ~f.readable
        /\ f.checkdata = MaxDur }

\* main is one thread that runs on until it returns or exits.
FairSpec == InitWith(ControlFlagValues) /\ [][Next]_vars /\ WF_vars(Next)

----------------------------------------------------------------------------
(* Vocabulary of the properties                                            *)

ExactlyOne(f) ==
    \/ f.a /\ ~f.b /\ ~f.p
    \/ ~f.a /\ f.b /\ ~f.p
    \/ ~f.a /\ ~f.b /\ f.p

Called(fn) == \E i \in DOMAIN calls : calls[i].fn = fn
CallOK(fn) == \E i \in DOMAIN calls : calls[i].fn = fn /\ calls[i].ok
CallFailed(fn) == \E i \in DOMAIN calls : calls[i].fn = fn /\ ~calls[i].ok
CountCalls(fn) == Cardinality({ i \in DOMAIN calls : calls[i].fn = fn })

RetrievalFns == { "gtfs.NewGtfsFromURL", "gtfs.NewGtfsFromFile" }
LoadFns == { "GetZipFileByName", "LoadRoutes", "LoadAll" }
GenerationFns == { "alerts.Make", "alerts.Loop", "brigades.Main", "positions.Main" }

NoGeneration == \A fn \in GenerationFns : ~Called(fn)
NoDatasetIO == \A fn \in RetrievalFns \cup LoadFns : ~Called(fn)
Retrieved == \E fn \in RetrievalFns : CallOK(fn)

----------------------------------------------------------------------------
(* C1: checkModes returns nil exactly when one of the three modes is set   *)
(* and an error when zero, two or three are; on that error main ends       *)
(* fatally with no dataset load and no generation call.                    *)
C1_ModeCheck ==
    /\ (checkModes(flags) = Nil) <=> ExactlyOne(flags)
    /\ (pc # "checkModes" /\ ~ExactlyOne(flags)) =>
          /\ pc = "exited"
          /\ exit = "fatal"
          /\ err = ErrModes
          /\ calls = <<>>
          /\ gtfsFile = "nil"
          /\ builder = "none"

C1_Witness ==
    /\ pc = "exited"
    /\ flags.a /\ flags.p /\ ~flags.b
    /\ exit = "fatal"
    /\ err = ErrModes

(* C2: with exactly one mode, not alerts, and a loop cadence other than 0  *)
(* (negative included) the process fails with a configuration error and    *)
(* never calls brigades.Main or positions.Main.                            *)
C2_NonZeroCadenceRejected ==
    (ExactlyOne(flags) /\ ~flags.a /\ flags.loop # 0) =>
        /\ pc = "exited" => exit = "fatal"
        /\ ~Called("brigades.Main")
        /\ ~Called("positions.Main")

C4_LoadByMode ==
    (ExactlyOne(flags) /\ flags.loop = 0 /\ pc \in { "launch", "exited" }) =>
        /\ flags.a =>
              /\ ~Called("LoadAll")
              /\ \E fn \in RetrievalFns : Called(fn)
              /\ Retrieved => Called("GetZipFileByName")
              /\ CallOK("GetZipFileByName") => Called("LoadRoutes")
              /\ CallFailed("GetZipFileByName") =>
                    /\ ~Called("LoadRoutes")
                    /\ pc = "exited" /\ exit = "fatal" /\ err = ErrNoRoutes
        /\ flags.b =>
              /\ ~Called("LoadRoutes")
              /\ ~Called("GetZipFileByName")
              /\ \E fn \in RetrievalFns : Called(fn)
              /\ Retrieved => Called("LoadAll")
        /\ flags.p => (NoDatasetIO /\ gtfsFile = "nil")

C4_Witness ==
    /\ ExactlyOne(flags) /\ flags.a /\ flags.loop = 0
    /\ CallFailed("GetZipFileByName")
    /\ err = ErrNoRoutes
    /\ exit = "fatal"

(* C5: in brigades or positions mode with an empty apikey the options      *)
(* builder fails with the missing-key error, brigades.Main and             *)
(* positions.Main are never called and the process exits with an error;    *)
(* in alerts mode the empty apikey is never the cause of a failure.        *)
C5_MissingCredential ==
    /\ (builder \in { "mainBrigades", "mainPositions" } /\ flags.k = EmptyString) =>
          /\ err = ErrNoKey
          /\ exit = "fatal"
          /\ opts = NoOpts
    /\ (ExactlyOne(flags) /\ ~flags.a /\ flags.k = EmptyString) =>
          /\ ~Called("brigades.Main")
          /\ ~Called("positions.Main")
          /\ pc = "exited" => exit = "fatal"
    /\ (ExactlyOne(flags) /\ flags.a) => err # ErrNoKey

C5_Witness ==
    /\ builder = "mainBrigades"
    /\ flags.k = EmptyString
    /\ pc = "exited"
    /\ exit = "fatal"
    /\ err = ErrNoKey
    /\ CallOK("LoadAll")

(* C6: alerts mode with cadence 0: alerts.Make is called at most once and  *)
(* alerts.Loop never; when the load and the generation succeed the process *)
(* ends normally after exactly one alerts.Make; and the process always     *)
(* ends.                                                                   *)
C6_OneShotAlerts ==
    /\ []((ExactlyOne(flags) /\ flags.a /\ flags.loop = 0) =>
            /\ CountCalls("alerts.Make") <= 1
            /\ ~Called("alerts.Loop")
            /\ regens = 0 /\ checks = 0
            /\ gtfsResource = NoResource
            /\ CallOK("alerts.Make") =>
                  (pc = "exited" /\ exit = "ok" /\ CallOK("LoadRoutes"))
            /\ (pc = "exited" /\ exit = "ok") => CountCalls("alerts.Make") = 1)
    /\ (ExactlyOne(flags) /\ flags.a /\ flags.loop = 0) ~> (pc = "exited")

C6_Witness ==
    /\ ExactlyOne(flags) /\ flags.a /\ flags.loop = 0
    /\ pc = "exited"
    /\ exit = "ok"
    /\ CountCalls("alerts.Make") = 1

(* C7: in a one-shot run every configuration, load or generation failure   *)
(* ends the process with a failure status and nothing runs after the       *)
(* failing step: no load and no generation after a failed mode check, no   *)
(* generation after a failed retrieval or load, and a generation error is  *)
(* the fatal exit of the process.                                          *)
C7_FailureIsFatal ==
    /\ [](flags.loop <= 0 =>
            /\ err = ErrModes => (calls = <<>> /\ builder = "none")
            /\ (\E fn \in RetrievalFns \cup LoadFns : CallFailed(fn)) =>
                  /\ pc = "exited" /\ exit = "fatal"
                  /\ err \in { ErrRetrieve, ErrNoRoutes, ErrLoad }
                  /\ NoGeneration
                  /\ builder = "none"
            /\ (\E fn \in GenerationFns : CallFailed(fn)) =>
                  (pc = "exited" /\ exit = "fatal" /\ err = ErrGen)
            /\ err # Nil => (pc = "exited" /\ exit = "fatal")
            /\ exit = "fatal" => (pc = "exited" /\ err # Nil))
    /\ [][pc # "exited"]_vars

C7_Witness ==
    /\ flags.loop <= 0
    /\ CallFailed("gtfs.NewGtfsFromURL")
    /\ pc = "exited"
    /\ exit = "fatal"
    /\ err = ErrRetrieve

\* The options a builder makes from a configuration.
OptionsOf(b, f) ==
    IF b = "mainPositions" THEN PositionsOptions(f) ELSE AlertsOptions(f)

PrimaryName(b) ==
    IF b = "mainPositions" THEN <<"positions", ".", "pb">>
    ELSE <<"alerts", ".", "pb">>

FeedBuilders == { "mainAlerts", "loopAlerts", "mainPositions" }

(* C8 as stated: the extension of the primary feed path depends on the     *)
(* format flag, so the configuration that differs only in -readable gets   *)
(* a primary path with another extension.                                  *)
C8_ExtensionFollowsFormat ==
    (builder \in FeedBuilders /\ opts # NoOpts) =>
        PathExt(opts.GtfsRtTarget) #
            PathExt(OptionsOf(builder,
                              [flags EXCEPT !.readable = ~@]).GtfsRtTarget)

(* C8 amended: for alerts and positions the primary feed path is always    *)
(* alerts.pb / positions.pb under the output directory, with the extension *)
(* .pb whatever the format flag; the format flag is carried only by the    *)
(* HumanReadable option.                                                   *)
C8_ExtensionFixed ==
    (builder \in FeedBuilders /\ opts # NoOpts) =>
        /\ opts.GtfsRtTarget = PathJoin(flags.target, PrimaryName(builder))
        /\ PathExt(opts.GtfsRtTarget) = <<".", "pb">>
        /\ opts.HumanReadable = flags.readable

C8_Witness ==
    /\ builder = "mainAlerts"
    /\ flags.readable
    /\ flags.target = <<"out", ".", "d", "/">>
    /\ opts.GtfsRtTarget = <<"out", ".", "d", "/", "alerts", ".", "pb">>

Continuous(f) == ExactlyOne(f) /\ f.a /\ f.loop > 0

C10_RecheckPeriod ==
    /\ [](gtfsResource # NoResource => gtfsResource.Peroid = flags.checkdata)
    /\ [][(checks' # checks /\ resState.checked
             /\ now - resState.lastCheck < flags.checkdata) =>
            /\ probeCount' = probeCount
            /\ fetchCount' = fetchCount
            /\ lastResult' = "unchanged"
            /\ resState' = resState]_vars
    /\ [][resState'.marker # resState.marker =>
            fetchCount' = fetchCount + 1]_vars

C10_Witness ==
    /\ pc = "loop"
    /\ checks > probeCount
    /\ fetchCount >= 1
    /\ resState.marker = content
    /\ flags.loop < flags.checkdata

====
